---------------------------- MODULE Spec2Model ----------------------------
(***************************************************************************)
(* A model of ImageProcessor/app.py: the lambda_handler cycle (discover,   *)
(* migrate, renumber, invalidate, reconcile, mark complete) and the        *)
(* helpers it calls, over abstract object stores.                          *)
(*                                                                         *)
(* Object keys are Python strings.  They are modelled as sequences of      *)
(* one-character strings so that os.path.splitext, os.path.dirname,        *)
(* str.lower, str.endswith, the substring test and the lexicographic sort  *)
(* are computed character by character, as the interpreter computes them.  *)
(***************************************************************************)
EXTENDS Integers, Sequences, FiniteSets, TLC

(***************************************************************************)
(* Characters and strings                                                  *)
(***************************************************************************)
Digits == <<"0", "1", "2", "3", "4", "5", "6", "7", "8", "9">>

UpperCase == <<"A", "B", "C", "D", "E", "F", "G", "H", "I", "J", "K", "L", "M",
               "N", "O", "P", "Q", "R", "S", "T", "U", "V", "W", "X", "Y", "Z">>

LowerCase == <<"a", "b", "c", "d", "e", "f", "g", "h", "i", "j", "k", "l", "m",
               "n", "o", "p", "q", "r", "s", "t", "u", "v", "w", "x", "y", "z">>

IndexIn(seq, c) == CHOOSE i \in 1..Len(seq) : seq[i] = c

IsIn(seq, c) == \E i \in 1..Len(seq) : seq[i] = c

\* The code point of a character: Python compares strings by code point.
Ord(c) ==
    IF IsIn(Digits, c) THEN 47 + IndexIn(Digits, c)
    ELSE IF IsIn(UpperCase, c) THEN 64 + IndexIn(UpperCase, c)
    ELSE IF IsIn(LowerCase, c) THEN 96 + IndexIn(LowerCase, c)
    ELSE IF c = " " THEN 32
    ELSE IF c = "%" THEN 37
    ELSE IF c = "+" THEN 43
    ELSE IF c = "." THEN 46
    ELSE IF c = "/" THEN 47
    ELSE 95   \* "_"

Alphabet ==
    {Digits[i] : i \in 1..10} \cup {UpperCase[i] : i \in 1..26}
        \cup {LowerCase[i] : i \in 1..26} \cup {" ", "%", "+", ".", "/", "_"}

\* str.lower()
LowerChar(c) == IF IsIn(UpperCase, c) THEN LowerCase[IndexIn(UpperCase, c)] ELSE c

Lower(s) == [i \in 1..Len(s) |-> LowerChar(s[i])]

\* s[a:b] with 0-based Python bounds a <= b
Slice(s, a, b) == [i \in 1..(b - a) |-> s[a + i]]

\* str.startswith / str.endswith / the `in` substring test
StartsWith(s, pre) == Len(pre) <= Len(s) /\ Slice(s, 0, Len(pre)) = pre

EndsWith(s, suf) == Len(suf) <= Len(s) /\ Slice(s, Len(s) - Len(suf), Len(s)) = suf

Contains(s, sub) ==
    \E a \in 0..(Len(s) - Len(sub)) : Slice(s, a, a + Len(sub)) = sub

\* s.rfind(c) as a 1-based position, 0 when c does not occur
RFind(s, c) ==
    IF \E i \in 1..Len(s) : s[i] = c
    THEN CHOOSE i \in 1..Len(s) : s[i] = c /\ \A j \in (i + 1)..Len(s) : s[j] # c
    ELSE 0

\* a < b for Python strings
StrLess(a, b) ==
    \E i \in 1..(Len(b)) :
        /\ \A j \in 1..(i - 1) : j <= Len(a) /\ a[j] = b[j]
        /\ \/ i = Len(a) + 1
           \/ i <= Len(a) /\ Ord(a[i]) < Ord(b[i])

\* sorted(S) for a set of strings
RECURSIVE SortKeys(_)
SortKeys(S) ==
    IF S = {} THEN <<>>
    ELSE LET m == CHOOSE x \in S : \A y \in S \ {x} : StrLess(x, y)
         IN  <<m>> \o SortKeys(S \ {m})

\* str(n) for n >= 0
RECURSIVE Str(_)
Str(n) == IF n < 10 THEN <<Digits[n + 1]>> ELSE Str(n \div 10) \o <<Digits[(n % 10) + 1]>>

\* s.strip('/')
RECURSIVE LStrip(_)
LStrip(s) == IF s # <<>> /\ Head(s) = "/" THEN LStrip(Tail(s)) ELSE s

RECURSIVE RStrip(_)
RStrip(s) == IF s # <<>> /\ s[Len(s)] = "/" THEN RStrip(SubSeq(s, 1, Len(s) - 1)) ELSE s

Strip(s) == RStrip(LStrip(s))

\* s.split('/')
RECURSIVE Split(_)
Split(s) ==
    IF ~ IsIn(s, "/") THEN <<s>>
    ELSE LET p == CHOOSE i \in 1..Len(s) : s[i] = "/" /\ \A j \in 1..(i - 1) : s[j] # "/"
         IN  <<SubSeq(s, 1, p - 1)>> \o Split(SubSeq(s, p + 1, Len(s)))

\* One hexadecimal digit's value, -1 when c is none
HexVal(c) ==
    IF IsIn(Digits, c) THEN IndexIn(Digits, c) - 1
    ELSE IF IsIn(SubSeq(UpperCase, 1, 6), c) THEN 9 + IndexIn(UpperCase, c)
    ELSE IF IsIn(SubSeq(LowerCase, 1, 6), c) THEN 9 + IndexIn(LowerCase, c)
    ELSE -1

\* urllib.parse.unquote_plus: "+" is a space and %XX is the character with
\* that code; a "%" not followed by two hex digits stays as it is.  Codes
\* outside Alphabet are not decoded.
RECURSIVE unquote_plus(_)
unquote_plus(s) ==
    IF s = <<>> THEN <<>>
    ELSE IF Head(s) = "+" THEN <<" ">> \o unquote_plus(Tail(s))
    ELSE IF /\ Head(s) = "%"
            /\ Len(s) >= 3
            /\ HexVal(s[2]) >= 0
            /\ HexVal(s[3]) >= 0
            /\ \E c \in Alphabet : Ord(c) = 16 * HexVal(s[2]) + HexVal(s[3])
         THEN <<CHOOSE c \in Alphabet : Ord(c) = 16 * HexVal(s[2]) + HexVal(s[3])>>
                  \o unquote_plus(SubSeq(s, 4, Len(s)))
    ELSE <<Head(s)>> \o unquote_plus(Tail(s))

(***************************************************************************)
(* os.path (posixpath)                                                     *)
(***************************************************************************)
\* os.path.dirname: up to the last "/", trailing slashes removed unless the
\* head is all slashes
dirname(p) ==
    LET head == SubSeq(p, 1, RFind(p, "/"))
    IN  IF head # <<>> /\ \E i \in 1..Len(head) : head[i] # "/" THEN RStrip(head) ELSE head

\* os.path.basename
basename(p) == SubSeq(p, RFind(p, "/") + 1, Len(p))

\* os.path.splitext: <<root, ext>>; leading dots of the basename are not an
\* extension separator
splitext(p) ==
    LET sep == RFind(p, "/")
        dot == RFind(p, ".")
    IN  IF dot > sep /\ \E k \in (sep + 1)..(dot - 1) : p[k] # "."
        THEN <<SubSeq(p, 1, dot - 1), SubSeq(p, dot, Len(p))>>
        ELSE <<p, <<>>>>

\* os.path.join of two components
join(a, b) ==
    IF b # <<>> /\ Head(b) = "/" THEN b
    ELSE IF a = <<>> \/ a[Len(a)] = "/" THEN a \o b
    ELSE a \o <<"/">> \o b


(***************************************************************************)
(* Program constants                                                       *)
(***************************************************************************)
VIDEO_EXTENSIONS ==
    { <<".", "m", "p", "4">>, <<".", "m", "o", "v">>, <<".", "a", "v", "i">>,
      <<".", "m", "k", "v">>, <<".", "w", "e", "b", "m">>, <<".", "w", "m", "v">> }

DotJpg == <<".", "j", "p", "g">>

LowerCaseSuffix == <<"_", "l", "o", "w", "e", "r", "_", "c", "a", "s", "e">>

ThumbnailLower == <<"t", "h", "u", "m", "b", "n", "a", "i", "l">>

ThumbnailName == <<"T", "h", "u", "m", "b", "n", "a", "i", "l">>

ThumbnailSlash == ThumbnailName \o <<"/">>

\* tempfile.TemporaryDirectory(): some absolute directory
TmpDir == <<"/", "t">>

(***************************************************************************)
(* Object stores: a bucket is a function from keys to object bodies.  A    *)
(* body is [id, enc]: id names the picture, enc is "orig" for the bytes as *)
(* uploaded and "jpeg" for bytes written by Image.save(..., 'JPEG').       *)
(***************************************************************************)
EmptyStore == [k \in {} |-> 0]

\* put_object / upload_file / the destination side of a copy
PutObject(store, k, body) ==
    [x \in (DOMAIN store) \cup {k} |-> IF x = k THEN body ELSE store[x]]

\* delete_object: deleting an absent key succeeds
DeleteObject(store, k) == [x \in (DOMAIN store) \ {k} |-> store[x]]

\* list_objects_v2(Prefix=prefix): the keys that start with prefix (the
\* buckets modelled hold fewer keys than one page of the listing)
ListObjects(store, prefix) == {k \in DOMAIN store : StartsWith(k, prefix)}

\* Image.save(new_path, 'JPEG') of a decoded picture
Encoded(body) == [id |-> body.id, enc |-> "jpeg"]

(***************************************************************************)
(* convert_to_jpg_s3: the local part (lines 31-76)                         *)
(***************************************************************************)
local_path(key) == join(TmpDir, basename(key))

file_ext(key) == Lower(splitext(local_path(key))[2])

IsVideo(ext) == ext \in VIDEO_EXTENSIONS

\* The path of the converted file, <<>> where the function returns
\* (False, None) before writing one.
new_path_of(key) ==
    LET file_name == splitext(local_path(key))[1]
        ext == file_ext(key)
    IN  IF IsVideo(ext) THEN <<>>
        ELSE IF ext \in {<<".", "t", "i", "f", "f">>, <<".", "t", "i", "f">>}
             THEN file_name \o DotJpg
        ELSE IF ext = <<".", "h", "e", "i", "c">> THEN file_name \o DotJpg
        ELSE IF ext = <<".", "m", "p", "4">> THEN <<>>
        ELSE IF ext = DotJpg THEN file_name \o LowerCaseSuffix \o DotJpg
        ELSE IF ext = <<".", "j", "p", "e", "g">> THEN file_name \o DotJpg
        ELSE IF ext \in {<<".", "p", "n", "g">>, <<".", "b", "m", "p">>}
             THEN file_name \o DotJpg
        ELSE <<>>

\* line 79
s3_key_of(key, new_path) == join(dirname(key), basename(new_path))

(***************************************************************************)
(* rename_images_in_s3_folder: the pure parts (lines 97-103)               *)
(***************************************************************************)
IsJpgKey(k) == EndsWith(Lower(k), DotJpg)

\* lines 95-99: the listed keys ending in .jpg, sorted
SortedImageFiles(store, prefix) ==
    SortKeys({k \in ListObjects(store, prefix) : IsJpgKey(k)})

\* lines 102-103
new_key_of(key, cnt) == join(dirname(key), Str(cnt) \o splitext(key)[2])

(***************************************************************************)
(* lambda_handler: the pure parts                                          *)
(***************************************************************************)
\* line 203
ParentFolders(ps) == {dirname(ps[n]) : n \in 1..Len(ps)}

\* lines 207-208
IsThumbnailFolder(prefix) ==
    LET parts == Split(Strip(prefix))
    IN  Lower(parts[Len(parts)]) = ThumbnailLower

\* line 232
TopLevelFolders(ps) == {Split(dirname(ps[n]))[1] : n \in 1..Len(ps)}

(***************************************************************************)
(* update_image_counts_json: the pure parts (lines 140-143)                *)
(***************************************************************************)
CountedKeys(store, folder_name) ==
    {k \in ListObjects(store, folder_name \o <<"/">>) :
        IsJpgKey(k) /\ ~ Contains(k, ThumbnailSlash)}

jpg_count(store, folder_name) == Cardinality(CountedKeys(store, folder_name))


(***************************************************************************)
(* Inputs: the keys registered for today, the staging bucket, and what the *)
(* destination bucket and the index document hold when the cycle starts.   *)
(***************************************************************************)
MaxPlaces == 2

K_a_1_heic == <<"a", "/", "1", ".", "h", "e", "i", "c">>
K_a_2_png == <<"a", "/", "2", ".", "p", "n", "g">>
K_a_2_jpg == <<"a", "/", "2", ".", "j", "p", "g">>
K_b_clip_mp4 == <<"b", "/", "c", "l", "i", "p", ".", "m", "p", "4">>
K_b_M_MOV == <<"b", "/", "M", ".", "M", "O", "V">>
K_c_n_gif == <<"c", "/", "n", ".", "g", "i", "f">>
K_a_Thumbnail_t_png ==
    <<"a", "/", "T", "h", "u", "m", "b", "n", "a", "i", "l", "/", "t", ".", "p", "n", "g">>

K_a_1_jpg == <<"a", "/", "1", ".", "j", "p", "g">>
K_a_1_JPG == <<"a", "/", "1", ".", "J", "P", "G">>
K_a_Thumbnail_1_jpg ==
    <<"a", "/", "T", "h", "u", "m", "b", "n", "a", "i", "l", "/", "1", ".", "j", "p", "g">>
K_a_OldThumbnail_1_jpg ==
    <<"a", "/", "O", "l", "d", "T", "h", "u", "m", "b", "n", "a", "i", "l", "/",
      "1", ".", "j", "p", "g">>

PlaceKeys ==
    <<K_a_1_heic, K_a_2_png, K_a_2_jpg, K_b_clip_mp4, K_b_M_MOV, K_c_n_gif,
      K_a_Thumbnail_t_png>>

\* The uploader's URL encoding of a key: "/" is stored as %2F
RECURSIVE TableValue(_)
TableValue(k) ==
    IF k = <<>> THEN <<>>
    ELSE IF Head(k) = "/" THEN <<"%", "2", "F">> \o TableValue(Tail(k))
    ELSE <<Head(k)>> \o TableValue(Tail(k))

\* The days' registrations: up to MaxPlaces of the keys, in the order of
\* PlaceKeys, plus the three-key day of the end-to-end scenario and one day
\* whose keys arrive in the other order
Discoveries ==
    { [n \in 1..Len(q) |-> TableValue(PlaceKeys[q[n]])] :
        q \in { q \in UNION {[1..m -> 1..Len(PlaceKeys)] : m \in 0..MaxPlaces} :
                    \A x, y \in 1..Len(q) : x < y => q[x] < q[y] } }
    \cup { <<TableValue(K_a_1_heic), TableValue(K_a_2_png), TableValue(K_b_clip_mp4)>>,
           <<TableValue(K_a_2_jpg), TableValue(K_a_2_png)>> }

Staging0 == [k \in {PlaceKeys[n] : n \in 1..Len(PlaceKeys)} |->
                [id |-> IndexIn(PlaceKeys, k), enc |-> "orig"]]

K_b_7_jpg == <<"b", "/", "7", ".", "j", "p", "g">>

InitialStores ==
    { EmptyStore,
      (K_a_1_jpg :> [id |-> 11, enc |-> "jpeg"])
          @@ (K_a_Thumbnail_1_jpg :> [id |-> 12, enc |-> "jpeg"]),
      (K_a_1_JPG :> [id |-> 13, enc |-> "orig"])
          @@ (K_a_OldThumbnail_1_jpg :> [id |-> 14, enc |-> "jpeg"])
          @@ (K_b_7_jpg :> [id |-> 15, enc |-> "jpeg"]) }

Index0 ==
    << [name |-> <<"a">>, numImages |-> 1, title |-> "A"],
       [name |-> <<"b">>, numImages |-> 0, title |-> "B"],
       [name |-> <<"z">>, numImages |-> 7, title |-> "Z"] >>

(***************************************************************************)
(* State                                                                   *)
(***************************************************************************)
VARIABLES
    items,              \* the place attributes of today's rows (URL-encoded)
    staging,            \* SOURCE_BUCKET
    dest,               \* DEST_BUCKET, but for the index document
    index,              \* the document at Json/image.json
    marker,             \* the last_updated item with key ImageProcessor
    markerWrites,       \* put_item calls that stored the marker
    invalidations,      \* invalidations CloudFront accepted
    pc,                 \* where lambda_handler is
    places,
    i,                  \* position of `for key in places`
    success_count,
    new_path,           \* convert_to_jpg_s3's converted local file
    folders_to_rename,  \* the folders the loop of line 205 has not visited
    folder_prefix,
    image_files,
    pos,                \* position of `for key in image_files`
    count,
    data,               \* update_image_counts_json's parsed document
    entry,              \* position of `for item in data`
    response,
    stages,             \* the stages entered so far, in order
    faults,             \* the stages in which a collaborator call failed
    dest0,              \* DEST_BUCKET when the cycle started
    before,             \* DEST_BUCKET when rename_images_in_s3_folder was entered
    renamed,            \* <<key, new_key>> of every copy_object of the renumbering
    counted,            \* the keys the recount of line 143 counted
    calls,              \* calls of rename_images_in_s3_folder (renumbering alone)
    copied,             \* position in places of the last key s3.copy stored, 0 if none
    indexWrites,        \* uploads of Json/image.json in this cycle
    attempts,           \* positions in places of the calls of s3.copy, in order
    convertedOk,        \* positions in places for which convert_to_jpg_s3 returned True
    converted,          \* lambda_handler's locals of line 195
    new_key,
    renCalled,          \* the folders rename_images_in_s3_folder was called with
    cycles,             \* invocations of lambda_handler so far
    firstRun            \* DEST_BUCKET and the document when the first invocation returned

vars ==
    <<items, staging, dest, index, marker, markerWrites, invalidations, pc, places,
      i, success_count, new_path, folders_to_rename, folder_prefix, image_files,
      pos, count, data, entry, response, stages, faults, dest0, before, renamed,
      counted, calls, copied,
      indexWrites, attempts, convertedOk, converted, new_key,
      renCalled, cycles, firstRun>>

NoResponse == [statusCode |-> 0, success |-> 0, total |-> 0]

NoMarker == [key |-> "", Result |-> ""]

NoSnapshot == [dest |-> EmptyStore, index |-> <<>>]

Locals0 ==
    /\ places = <<>>
    /\ i = 1
    /\ success_count = 0
    /\ new_path = <<>>
    /\ folders_to_rename = {}
    /\ folder_prefix = <<>>
    /\ image_files = <<>>
    /\ pos = 1
    /\ count = 1
    /\ data = <<>>
    /\ entry = 1
    /\ response = NoResponse
    /\ stages = <<>>
    /\ faults = {}
    /\ renamed = {}
    /\ counted = {}
    /\ calls = 0
    /\ copied = 0
    /\ indexWrites = 0
    /\ attempts = <<>>
    /\ convertedOk = {}
    /\ converted = FALSE
    /\ new_key = <<>>
    /\ renCalled = {}

Init ==
    /\ items \in Discoveries
    /\ staging = Staging0
    /\ dest \in InitialStores
    /\ dest0 = dest
    /\ before = dest
    /\ index = Index0
    /\ marker = NoMarker
    /\ markerWrites = 0
    /\ invalidations = 0
    /\ pc = "query"
    /\ cycles = 1
    /\ firstRun = NoSnapshot
    /\ Locals0


(***************************************************************************)
(* lambda_handler, one action per collaborator call or loop step.  The     *)
(* parameter ok says whether the call succeeds; a failing call raises      *)
(* botocore's ClientError (inside the helpers: any exception).             *)
(***************************************************************************)
Enter(stage) ==
    stages' = IF stages # <<>> /\ stages[Len(stages)] = stage
              THEN stages
              ELSE Append(stages, stage)

Fault(stage) == faults' = faults \cup {stage}

\* Query with the except clause logging and carrying on with no places
\* instead of returning the 500 response
QueryFailureIgnored(ok) ==
    /\ pc = "query"
    /\ Enter("Discover")
    /\ IF ok
       THEN /\ places' = [n \in 1..Len(items) |-> unquote_plus(items[n])]
            /\ UNCHANGED faults
       ELSE /\ places' = <<>>
            /\ Fault("query")
    /\ pc' = "migrate"
    /\ UNCHANGED <<items, staging, dest, index, marker, markerWrites, invalidations,
                   i, success_count, new_path, folders_to_rename, folder_prefix,
                   image_files, pos, count, data, entry, response, dest0, before,
                   renamed, counted, calls, copied,
                   indexWrites, attempts, convertedOk, converted, new_key,
                   renCalled, cycles, firstRun>>

\* lines 164-177: the query of today's rows
Query(ok) ==
    /\ pc = "query"
    /\ Enter("Discover")
    /\ IF ok
       THEN /\ places' = [n \in 1..Len(items) |-> unquote_plus(items[n])]
            /\ pc' = "migrate"
            /\ UNCHANGED <<response, faults>>
       ELSE /\ response' = [statusCode |-> 500, success |-> 0, total |-> 0]
            /\ pc' = "done"
            /\ Fault("query")
            /\ UNCHANGED places
    /\ UNCHANGED <<items, staging, dest, index, marker, markerWrites, invalidations,
                   i, success_count, new_path, folders_to_rename, folder_prefix,
                   image_files, pos, count, data, entry, dest0, before, renamed,
                   counted, calls, copied,
                   indexWrites, attempts, convertedOk, converted, new_key,
                   renCalled, cycles, firstRun>>

\* IsVideoKey without the .lower() of line 181
IsVideoKeyCaseSensitive(key) == IsVideo(splitext(key)[2])

\* lines 181-182
IsVideoKey(key) == IsVideo(Lower(splitext(key)[2]))

\* lines 180-184: a video key is skipped
MigrateSkipVideo ==
    /\ pc = "migrate"
    /\ i <= Len(places)
    /\ IsVideoKey(places[i])
    /\ Enter("Migrate")
    /\ i' = i + 1
    /\ UNCHANGED <<items, staging, dest, index, marker, markerWrites, invalidations,
                   pc, places, success_count, new_path, folders_to_rename,
                   folder_prefix, image_files, pos, count, data, entry, response,
                   faults, dest0, before, renamed, counted, calls, copied,
                   indexWrites, attempts, convertedOk, converted, new_key,
                   renCalled, cycles, firstRun>>

\* MigrateCopy with the except clause around the loop: a failing copy ends
\* the loop over places
MigrateCopyFailureEndsLoop(ok) ==
    /\ pc = "migrate"
    /\ i <= Len(places)
    /\ ~ IsVideoKey(places[i])
    /\ Enter("Migrate")
    /\ attempts' = Append(attempts, i)
    /\ IF ok /\ places[i] \in DOMAIN staging
       THEN /\ dest' = PutObject(dest, places[i], staging[places[i]])
            /\ copied' = i
            /\ pc' = "conv_download"
            /\ UNCHANGED <<i, faults>>
       ELSE /\ i' = Len(places) + 1
            /\ Fault("copy")
            /\ UNCHANGED <<dest, pc, copied>>
    /\ UNCHANGED <<items, staging, index, marker, markerWrites, invalidations,
                   places, success_count, new_path, folders_to_rename, folder_prefix,
                   image_files, pos, count, data, entry, response, dest0, before,
                   renamed, counted, calls, indexWrites, convertedOk,
                   converted, new_key, renCalled, cycles, firstRun>>

\* lines 185-192 and 199-200: s3.copy from SOURCE_BUCKET to DEST_BUCKET
MigrateCopy(ok) ==
    /\ pc = "migrate"
    /\ i <= Len(places)
    /\ ~ IsVideoKey(places[i])
    /\ Enter("Migrate")
    /\ attempts' = Append(attempts, i)
    /\ IF ok /\ places[i] \in DOMAIN staging
       THEN /\ dest' = PutObject(dest, places[i], staging[places[i]])
            /\ copied' = i
            /\ pc' = "conv_download"
            /\ UNCHANGED <<i, faults>>
       ELSE /\ i' = i + 1
            /\ Fault("copy")
            /\ UNCHANGED <<dest, pc, copied>>
    /\ UNCHANGED <<items, staging, index, marker, markerWrites, invalidations,
                   places, success_count, new_path, folders_to_rename, folder_prefix,
                   image_files, pos, count, data, entry, response, dest0, before,
                   renamed, counted, calls, indexWrites, convertedOk,
                   converted, new_key, renCalled, cycles, firstRun>>

\* ConvReturn with success_count incremented whatever convert_to_jpg_s3
\* returned
ConvReturnCountsEveryReturn(ok) ==
    /\ success_count' = success_count + 1
    /\ i' = i + 1
    /\ new_path' = <<>>
    /\ pc' = "migrate"
    /\ converted' = ok
    /\ new_key' = IF ok THEN s3_key_of(places[i], new_path) ELSE <<>>
    /\ convertedOk' = IF ok THEN convertedOk \cup {i} ELSE convertedOk

\* lines 195-197: convert_to_jpg_s3 returns (converted, new_key)
ConvReturn(ok) ==
    /\ success_count' = IF ok THEN success_count + 1 ELSE success_count
    /\ i' = i + 1
    /\ new_path' = <<>>
    /\ pc' = "migrate"
    /\ converted' = ok
    /\ new_key' = IF ok THEN s3_key_of(places[i], new_path) ELSE <<>>
    /\ convertedOk' = IF ok THEN convertedOk \cup {i} ELSE convertedOk

\* line 32: s3.download_file
ConvDownload(ok) ==
    /\ pc = "conv_download"
    /\ IF ok /\ places[i] \in DOMAIN dest
       THEN /\ pc' = "conv_encode"
            /\ UNCHANGED <<i, success_count, new_path, converted, new_key, convertedOk, faults>>
       ELSE /\ ConvReturn(FALSE)
            /\ Fault("convert")
    /\ UNCHANGED <<items, staging, dest, index, marker, markerWrites, invalidations,
                   places, folders_to_rename, folder_prefix, image_files, pos, count,
                   data, entry, response, stages, dest0, before, renamed, counted,
                   calls, copied,
                   indexWrites, attempts, renCalled, cycles, firstRun>>

\* lines 34-76: the branch on the extension, decoding and Image.save
ConvEncode(ok) ==
    /\ pc = "conv_encode"
    /\ IF new_path_of(places[i]) = <<>>
       THEN /\ ConvReturn(FALSE)
            /\ UNCHANGED faults
       ELSE IF ok
       THEN /\ new_path' = new_path_of(places[i])
            /\ pc' = "conv_upload"
            /\ UNCHANGED <<i, success_count, converted, new_key, convertedOk, faults>>
       ELSE /\ ConvReturn(FALSE)
            /\ Fault("convert")
    /\ UNCHANGED <<items, staging, dest, index, marker, markerWrites, invalidations,
                   places, folders_to_rename, folder_prefix, image_files, pos, count,
                   data, entry, response, stages, dest0, before, renamed, counted,
                   calls, copied,
                   indexWrites, attempts, renCalled, cycles, firstRun>>

\* ConvUpload with the original deleted before the converted file is
\* uploaded
ConvUploadAfterDelete(ok) ==
    /\ pc = "conv_upload"
    /\ IF ok
       THEN /\ dest' = PutObject(DeleteObject(dest, places[i]),
                                 s3_key_of(places[i], new_path),
                                 Encoded(dest[places[i]]))
            /\ ConvReturn(TRUE)
            /\ UNCHANGED faults
       ELSE /\ dest' = DeleteObject(dest, places[i])
            /\ ConvReturn(FALSE)
            /\ Fault("convert")
    /\ UNCHANGED <<items, staging, index, marker, markerWrites, invalidations,
                   places, folders_to_rename, folder_prefix, image_files, pos, count,
                   data, entry, response, stages, dest0, before, renamed, counted,
                   calls, copied,
                   indexWrites, attempts, renCalled, cycles, firstRun>>

\* lines 79-80: s3.upload_file of the converted file
ConvUpload(ok) ==
    /\ pc = "conv_upload"
    /\ IF ok
       THEN /\ dest' = PutObject(dest, s3_key_of(places[i], new_path),
                                 Encoded(dest[places[i]]))
            /\ IF s3_key_of(places[i], new_path) # places[i]
               THEN /\ pc' = "conv_delete"
                    /\ UNCHANGED <<i, success_count, new_path, converted, new_key, convertedOk>>
               ELSE ConvReturn(TRUE)
            /\ UNCHANGED faults
       ELSE /\ ConvReturn(FALSE)
            /\ Fault("convert")
            /\ UNCHANGED dest
    /\ UNCHANGED <<items, staging, index, marker, markerWrites, invalidations,
                   places, folders_to_rename, folder_prefix, image_files, pos, count,
                   data, entry, response, stages, dest0, before, renamed, counted,
                   calls, copied,
                   indexWrites, attempts, renCalled, cycles, firstRun>>

\* ConvDelete with the failure of delete_object swallowed: the function
\* returns True with the original still in the bucket
ConvDeleteIgnoresFailure(ok) ==
    /\ pc = "conv_delete"
    /\ IF ok
       THEN /\ dest' = DeleteObject(dest, places[i])
            /\ ConvReturn(TRUE)
            /\ UNCHANGED faults
       ELSE /\ ConvReturn(TRUE)
            /\ Fault("convert")
            /\ UNCHANGED dest
    /\ UNCHANGED <<items, staging, index, marker, markerWrites, invalidations,
                   places, folders_to_rename, folder_prefix, image_files, pos, count,
                   data, entry, response, stages, dest0, before, renamed, counted,
                   calls, copied,
                   indexWrites, attempts, renCalled, cycles, firstRun>>

\* lines 83-86: s3.delete_object of the original
ConvDelete(ok) ==
    /\ pc = "conv_delete"
    /\ IF ok
       THEN /\ dest' = DeleteObject(dest, places[i])
            /\ ConvReturn(TRUE)
            /\ UNCHANGED faults
       ELSE /\ ConvReturn(FALSE)
            /\ Fault("convert")
            /\ UNCHANGED dest
    /\ UNCHANGED <<items, staging, index, marker, markerWrites, invalidations,
                   places, folders_to_rename, folder_prefix, image_files, pos, count,
                   data, entry, response, stages, dest0, before, renamed, counted,
                   calls, copied,
                   indexWrites, attempts, renCalled, cycles, firstRun>>

\* MigrateDone leaving the loop after the first key
MigrateDoneEarly ==
    /\ pc = "migrate"
    /\ (i > 1 \/ i > Len(places))
    /\ pc' = "derive"
    /\ UNCHANGED <<items, staging, dest, index, marker, markerWrites, invalidations,
                   places, i, success_count, new_path, folders_to_rename,
                   folder_prefix, image_files, pos, count, data, entry, response,
                   stages, faults, dest0, before, renamed, counted, calls, copied,
                   indexWrites, attempts, convertedOk, converted, new_key,
                   renCalled, cycles, firstRun>>

\* line 180: the loop over places ends
MigrateDone ==
    /\ pc = "migrate"
    /\ i > Len(places)
    /\ pc' = "derive"
    /\ UNCHANGED <<items, staging, dest, index, marker, markerWrites, invalidations,
                   places, i, success_count, new_path, folders_to_rename,
                   folder_prefix, image_files, pos, count, data, entry, response,
                   stages, faults, dest0, before, renamed, counted, calls, copied,
                   indexWrites, attempts, convertedOk, converted, new_key,
                   renCalled, cycles, firstRun>>

\* line 203
DeriveFolders ==
    /\ pc = "derive"
    /\ Enter("DeriveFolders")
    /\ folders_to_rename' = ParentFolders(places)
    /\ pc' = "ren_pick"
    /\ UNCHANGED <<items, staging, dest, index, marker, markerWrites, invalidations,
                   places, i, success_count, new_path, folder_prefix, image_files,
                   pos, count, data, entry, response, faults, dest0, before, renamed,
                   counted, calls, copied,
                   indexWrites, attempts, convertedOk, converted, new_key,
                   renCalled, cycles, firstRun>>

\* lines 205-210: a set is iterated in no particular order
RenumberSkipThumbnail ==
    /\ pc = "ren_pick"
    /\ \E f \in folders_to_rename :
        /\ IsThumbnailFolder(f)
        /\ folders_to_rename' = folders_to_rename \ {f}
    /\ Enter("Renumber")
    /\ UNCHANGED <<items, staging, dest, index, marker, markerWrites, invalidations,
                   pc, places, i, success_count, new_path, folder_prefix, image_files,
                   pos, count, data, entry, response, faults, dest0, before, renamed,
                   counted, calls, copied,
                   indexWrites, attempts, convertedOk, converted, new_key,
                   renCalled, cycles, firstRun>>

\* line 211
RenumberCall ==
    /\ pc = "ren_pick"
    /\ \E f \in folders_to_rename :
        /\ ~ IsThumbnailFolder(f)
        /\ folders_to_rename' = folders_to_rename \ {f}
        /\ folder_prefix' = f
        /\ renCalled' = renCalled \cup {f}
    /\ Enter("Renumber")
    /\ before' = dest
    /\ pc' = "ren_list"
    /\ UNCHANGED <<items, staging, dest, index, marker, markerWrites, invalidations,
                   places, i, success_count, new_path, image_files, pos, count, data,
                   entry, response, faults, dest0, renamed, counted, calls, copied,
                   indexWrites, attempts, convertedOk, converted, new_key,
                   cycles, firstRun>>

\* RenumberDone going straight to the recount, with no invalidation
RenumberDoneSkipsInvalidation ==
    /\ pc = "ren_pick"
    /\ folders_to_rename = {}
    /\ pc' = "rec_download"
    /\ UNCHANGED <<items, staging, dest, index, marker, markerWrites, invalidations,
                   places, i, success_count, new_path, folders_to_rename,
                   folder_prefix, image_files, pos, count, data, entry, response,
                   stages, faults, dest0, before, renamed, counted, calls, copied,
                   indexWrites, attempts, convertedOk, converted, new_key,
                   renCalled, cycles, firstRun>>

\* line 205: the loop over folders_to_rename ends
RenumberDone ==
    /\ pc = "ren_pick"
    /\ folders_to_rename = {}
    /\ pc' = "invalidate"
    /\ UNCHANGED <<items, staging, dest, index, marker, markerWrites, invalidations,
                   places, i, success_count, new_path, folders_to_rename,
                   folder_prefix, image_files, pos, count, data, entry, response,
                   stages, faults, dest0, before, renamed, counted, calls, copied,
                   indexWrites, attempts, convertedOk, converted, new_key,
                   renCalled, cycles, firstRun>>

(***************************************************************************)
(* rename_images_in_s3_folder (lines 93-112)                               *)
(***************************************************************************)
\* The function returns (line 109, or the handler of lines 111-112): its
\* locals are gone and the caller's loop goes on.
RenReturn ==
    /\ image_files' = <<>>
    /\ pos' = 1
    /\ count' = 1
    /\ pc' = "ren_pick"

\* RenList with the except clause around the loop over the folders: a
\* failing listing ends the renumbering of every folder
RenListFailureEndsRenumbering(ok) ==
    /\ pc = "ren_list"
    /\ IF ok
       THEN /\ image_files' = SortedImageFiles(dest, folder_prefix)
            /\ count' = 1
            /\ pos' = 1
            /\ pc' = "ren_loop"
            /\ UNCHANGED <<faults, folders_to_rename>>
       ELSE /\ RenReturn
            /\ folders_to_rename' = {}
            /\ Fault("renumber")
    /\ UNCHANGED <<items, staging, dest, index, marker, markerWrites, invalidations,
                   places, i, success_count, new_path,
                   folder_prefix, data, entry, response, stages, dest0, before,
                   renamed, counted, calls, copied,
                   indexWrites, attempts, convertedOk, converted, new_key,
                   renCalled, cycles, firstRun>>

\* lines 95-100
RenList(ok) ==
    /\ pc = "ren_list"
    /\ IF ok
       THEN /\ image_files' = SortedImageFiles(dest, folder_prefix)
            /\ count' = 1
            /\ pos' = 1
            /\ pc' = "ren_loop"
            /\ UNCHANGED faults
       ELSE /\ RenReturn
            /\ Fault("renumber")
    /\ UNCHANGED <<items, staging, dest, index, marker, markerWrites, invalidations,
                   places, i, success_count, new_path, folders_to_rename,
                   folder_prefix, data, entry, response, stages, dest0, before,
                   renamed, counted, calls, copied,
                   indexWrites, attempts, convertedOk, converted, new_key,
                   renCalled, cycles, firstRun>>

\* lines 104 and 108: the key already has its number
RenKeep ==
    /\ pc = "ren_loop"
    /\ pos <= Len(image_files)
    /\ new_key_of(image_files[pos], count) = image_files[pos]
    /\ count' = count + 1
    /\ pos' = pos + 1
    /\ UNCHANGED <<items, staging, dest, index, marker, markerWrites, invalidations,
                   pc, places, i, success_count, new_path, folders_to_rename,
                   folder_prefix, image_files, data, entry, response, stages, faults,
                   dest0, before, renamed, counted, calls, copied,
                   indexWrites, attempts, convertedOk, converted, new_key,
                   renCalled, cycles, firstRun>>

\* line 105: s3.copy_object to the numbered key
RenCopy(ok) ==
    /\ pc = "ren_loop"
    /\ pos <= Len(image_files)
    /\ new_key_of(image_files[pos], count) # image_files[pos]
    /\ IF ok /\ image_files[pos] \in DOMAIN dest
       THEN /\ dest' = PutObject(dest, new_key_of(image_files[pos], count),
                                 dest[image_files[pos]])
            /\ renamed' = renamed \cup
                   {<<image_files[pos], new_key_of(image_files[pos], count)>>}
            /\ pc' = "ren_delete"
            /\ UNCHANGED <<image_files, pos, count, faults>>
       ELSE /\ RenReturn
            /\ Fault("renumber")
            /\ UNCHANGED <<dest, renamed>>
    /\ UNCHANGED <<items, staging, index, marker, markerWrites, invalidations,
                   places, i, success_count, new_path, folders_to_rename,
                   folder_prefix, data, entry, response, stages, dest0, before,
                   counted, calls, copied,
                   indexWrites, attempts, convertedOk, converted, new_key,
                   renCalled, cycles, firstRun>>

\* RenDelete deleting the old key in SOURCE_BUCKET as well
RenDeleteInBothBuckets(ok) ==
    /\ pc = "ren_delete"
    /\ IF ok
       THEN /\ dest' = DeleteObject(dest, image_files[pos])
            /\ staging' = DeleteObject(staging, image_files[pos])
            /\ count' = count + 1
            /\ pos' = pos + 1
            /\ pc' = "ren_loop"
            /\ UNCHANGED <<image_files, faults>>
       ELSE /\ RenReturn
            /\ Fault("renumber")
            /\ UNCHANGED <<dest, staging>>
    /\ UNCHANGED <<items, index, marker, markerWrites, invalidations,
                   places, i, success_count, new_path, folders_to_rename,
                   folder_prefix, data, entry, response, stages, dest0, before,
                   renamed, counted, calls, copied,
                   indexWrites, attempts, convertedOk, converted, new_key,
                   renCalled, cycles, firstRun>>

\* lines 106-108: s3.delete_object of the old key
RenDelete(ok) ==
    /\ pc = "ren_delete"
    /\ IF ok
       THEN /\ dest' = DeleteObject(dest, image_files[pos])
            /\ count' = count + 1
            /\ pos' = pos + 1
            /\ pc' = "ren_loop"
            /\ UNCHANGED <<image_files, faults>>
       ELSE /\ RenReturn
            /\ Fault("renumber")
            /\ UNCHANGED dest
    /\ UNCHANGED <<items, staging, index, marker, markerWrites, invalidations,
                   places, i, success_count, new_path, folders_to_rename,
                   folder_prefix, data, entry, response, stages, dest0, before,
                   renamed, counted, calls, copied,
                   indexWrites, attempts, convertedOk, converted, new_key,
                   renCalled, cycles, firstRun>>

\* line 109: the loop ends and the function returns
RenLoopDone ==
    /\ pc = "ren_loop"
    /\ pos > Len(image_files)
    /\ RenReturn
    /\ UNCHANGED <<items, staging, dest, index, marker, markerWrites, invalidations,
                   places, i, success_count, new_path, folders_to_rename,
                   folder_prefix, data, entry, response, stages, faults, dest0,
                   before, renamed, counted, calls, copied,
                   indexWrites, attempts, convertedOk, converted, new_key,
                   renCalled, cycles, firstRun>>


(***************************************************************************)
(* lambda_handler, after the renumbering                                   *)
(***************************************************************************)
\* Invalidate without the except clause: the ClientError ends the handler
InvalidateUncaught(ok) ==
    /\ pc = "invalidate"
    /\ Enter("Invalidate")
    /\ IF ok
       THEN /\ invalidations' = invalidations + 1
            /\ pc' = "rec_download"
            /\ UNCHANGED faults
       ELSE /\ Fault("invalidate")
            /\ pc' = "done"
            /\ UNCHANGED invalidations
    /\ UNCHANGED <<items, staging, dest, index, marker, markerWrites, places, i,
                   success_count, new_path, folders_to_rename, folder_prefix,
                   image_files, pos, count, data, entry, response, dest0, before,
                   renamed, counted, calls, copied,
                   indexWrites, attempts, convertedOk, converted, new_key,
                   renCalled, cycles, firstRun>>

\* lines 213-226: cloudfront.create_invalidation
Invalidate(ok) ==
    /\ pc = "invalidate"
    /\ Enter("Invalidate")
    /\ IF ok
       THEN invalidations' = invalidations + 1 /\ UNCHANGED faults
       ELSE Fault("invalidate") /\ UNCHANGED invalidations
    /\ pc' = "rec_download"
    /\ UNCHANGED <<items, staging, dest, index, marker, markerWrites, places, i,
                   success_count, new_path, folders_to_rename, folder_prefix,
                   image_files, pos, count, data, entry, response, dest0, before,
                   renamed, counted, calls, copied,
                   indexWrites, attempts, convertedOk, converted, new_key,
                   renCalled, cycles, firstRun>>

\* update_image_counts_json returns (line 152, or the handler of lines
\* 154-155): its locals are gone.
RecReturn ==
    /\ data' = <<>>
    /\ entry' = 1
    /\ pc' = "mark"

\* lines 130-134: the document is downloaded and parsed
RecDownload(ok) ==
    /\ pc = "rec_download"
    /\ Enter("Reconcile")
    /\ IF ok
       THEN /\ data' = index
            /\ entry' = 1
            /\ pc' = "rec_loop"
            /\ UNCHANGED faults
       ELSE /\ RecReturn
            /\ Fault("reconcile")
    /\ UNCHANGED <<items, staging, dest, index, marker, markerWrites, invalidations,
                   places, i, success_count, new_path, folders_to_rename,
                   folder_prefix, image_files, pos, count, response, dest0, before,
                   renamed, counted, calls, copied,
                   indexWrites, attempts, convertedOk, converted, new_key,
                   renCalled, cycles, firstRun>>

\* RecSkipEntry recounting the entry although its name is not in
\* processed_folders
RecSkipEntryRecounts ==
    /\ pc = "rec_loop"
    /\ entry <= Len(data)
    /\ data[entry].name \notin TopLevelFolders(places)
    /\ data' = [data EXCEPT ![entry].numImages = jpg_count(dest, data[entry].name)]
    /\ entry' = entry + 1
    /\ UNCHANGED <<items, staging, dest, index, marker, markerWrites, invalidations,
                   pc, places, i, success_count, new_path, folders_to_rename,
                   folder_prefix, image_files, pos, count, response, stages,
                   faults, dest0, before, renamed, counted, calls, copied,
                   indexWrites, attempts, convertedOk, converted, new_key,
                   renCalled, cycles, firstRun>>

\* lines 137-139: an entry that is not in processed_folders
RecSkipEntry ==
    /\ pc = "rec_loop"
    /\ entry <= Len(data)
    /\ data[entry].name \notin TopLevelFolders(places)
    /\ entry' = entry + 1
    /\ UNCHANGED <<items, staging, dest, index, marker, markerWrites, invalidations,
                   pc, places, i, success_count, new_path, folders_to_rename,
                   folder_prefix, image_files, pos, count, data, response, stages,
                   faults, dest0, before, renamed, counted, calls, copied,
                   indexWrites, attempts, convertedOk, converted, new_key,
                   renCalled, cycles, firstRun>>

\* RecCountEntry storing the document after every recount
RecCountEntryWritesThrough(ok) ==
    /\ pc = "rec_loop"
    /\ entry <= Len(data)
    /\ data[entry].name \in TopLevelFolders(places)
    /\ IF ok
       THEN /\ data' = [data EXCEPT ![entry].numImages = jpg_count(dest, data[entry].name)]
            /\ index' = data'
            /\ counted' = counted \cup CountedKeys(dest, data[entry].name)
            /\ entry' = entry + 1
            /\ UNCHANGED <<pc, faults>>
       ELSE /\ RecReturn
            /\ Fault("reconcile")
            /\ UNCHANGED <<counted, index>>
    /\ UNCHANGED <<items, staging, dest, marker, markerWrites, invalidations,
                   places, i, success_count, new_path, folders_to_rename,
                   folder_prefix, image_files, pos, count, response, stages, dest0,
                   before, renamed, calls, copied,
                   indexWrites, attempts, convertedOk, converted, new_key,
                   renCalled, cycles, firstRun>>

\* lines 139-144: the recount of an entry of processed_folders
RecCountEntry(ok) ==
    /\ pc = "rec_loop"
    /\ entry <= Len(data)
    /\ data[entry].name \in TopLevelFolders(places)
    /\ IF ok
       THEN /\ data' = [data EXCEPT ![entry].numImages = jpg_count(dest, data[entry].name)]
            /\ counted' = counted \cup CountedKeys(dest, data[entry].name)
            /\ entry' = entry + 1
            /\ UNCHANGED <<pc, faults>>
       ELSE /\ RecReturn
            /\ Fault("reconcile")
            /\ UNCHANGED counted
    /\ UNCHANGED <<items, staging, dest, index, marker, markerWrites, invalidations,
                   places, i, success_count, new_path, folders_to_rename,
                   folder_prefix, image_files, pos, count, response, stages, dest0,
                   before, renamed, calls, copied,
                   indexWrites, attempts, convertedOk, converted, new_key,
                   renCalled, cycles, firstRun>>

\* lines 147-151: the whole document is written back
RecUpload(ok) ==
    /\ pc = "rec_loop"
    /\ entry > Len(data)
    /\ IF ok
       THEN index' = data /\ indexWrites' = indexWrites + 1 /\ UNCHANGED faults
       ELSE Fault("reconcile") /\ UNCHANGED <<index, indexWrites>>
    /\ RecReturn
    /\ UNCHANGED <<items, staging, dest, marker, markerWrites, invalidations, places,
                   i, success_count, new_path, folders_to_rename, folder_prefix,
                   image_files, pos, count, response, stages, dest0, before, renamed,
                   counted, calls, copied,
                   attempts, convertedOk, converted, new_key,
                   renCalled, cycles, firstRun>>

\* lines 236-243 and 116-125: write_item_to_dynamodb (the item's Timestamp
\* is left out)
MarkComplete(ok) ==
    /\ pc = "mark"
    /\ Enter("MarkComplete")
    /\ IF ok
       THEN /\ marker' = [key |-> "ImageProcessor", Result |-> "Success"]
            /\ markerWrites' = markerWrites + 1
            /\ UNCHANGED faults
       ELSE /\ Fault("mark")
            /\ UNCHANGED <<marker, markerWrites>>
    /\ pc' = "respond"
    /\ UNCHANGED <<items, staging, dest, index, invalidations, places, i,
                   success_count, new_path, folders_to_rename, folder_prefix,
                   image_files, pos, count, data, entry, response, dest0, before,
                   renamed, counted, calls, copied,
                   indexWrites, attempts, convertedOk, converted, new_key,
                   renCalled, cycles, firstRun>>

\* Respond reporting the keys a copy was attempted for as the total
RespondCountsAttempted ==
    /\ pc = "respond"
    /\ response' = [statusCode |-> 200, success |-> success_count, total |-> Len(attempts)]
    /\ pc' = "done"
    /\ UNCHANGED <<items, staging, dest, index, marker, markerWrites, invalidations,
                   places, i, success_count, new_path, folders_to_rename,
                   folder_prefix, image_files, pos, count, data, entry, stages,
                   faults, dest0, before, renamed, counted, calls, copied,
                   indexWrites, attempts, convertedOk, converted, new_key,
                   renCalled, cycles, firstRun>>

\* lines 245-248
Respond ==
    /\ pc = "respond"
    /\ response' = [statusCode |-> 200, success |-> success_count, total |-> Len(places)]
    /\ pc' = "done"
    /\ UNCHANGED <<items, staging, dest, index, marker, markerWrites, invalidations,
                   places, i, success_count, new_path, folders_to_rename,
                   folder_prefix, image_files, pos, count, data, entry, stages,
                   faults, dest0, before, renamed, counted, calls, copied,
                   indexWrites, attempts, convertedOk, converted, new_key,
                   renCalled, cycles, firstRun>>

Next ==
    \/ \E ok \in BOOLEAN : Query(ok)
    \/ MigrateSkipVideo
    \/ \E ok \in BOOLEAN : MigrateCopy(ok)
    \/ \E ok \in BOOLEAN : ConvDownload(ok)
    \/ \E ok \in BOOLEAN : ConvEncode(ok)
    \/ \E ok \in BOOLEAN : ConvUpload(ok)
    \/ \E ok \in BOOLEAN : ConvDelete(ok)
    \/ MigrateDone
    \/ DeriveFolders
    \/ RenumberSkipThumbnail
    \/ RenumberCall
    \/ RenumberDone
    \/ \E ok \in BOOLEAN : RenList(ok)
    \/ RenKeep
    \/ \E ok \in BOOLEAN : RenCopy(ok)
    \/ \E ok \in BOOLEAN : RenDelete(ok)
    \/ RenLoopDone
    \/ \E ok \in BOOLEAN : Invalidate(ok)
    \/ \E ok \in BOOLEAN : RecDownload(ok)
    \/ RecSkipEntry
    \/ \E ok \in BOOLEAN : RecCountEntry(ok)
    \/ \E ok \in BOOLEAN : RecUpload(ok)
    \/ \E ok \in BOOLEAN : MarkComplete(ok)
    \/ Respond

Spec == Init /\ [][Next]_vars


(***************************************************************************)
(* rename_images_in_s3_folder alone: the function is called on one folder  *)
(* of a bucket, up to MaxCalls times in a row, and no store call fails.    *)
(***************************************************************************)
MaxSeq == 10

MaxCalls == 2

RenumberFolder == <<"a">>

InFolder(base) == join(RenumberFolder, base)

FolderUniverse ==
    << InFolder(<<"0", ".", "j", "p", "g">>), InFolder(<<"1", ".", "j", "p", "g">>),
       InFolder(<<"a", ".", "j", "p", "g">>), InFolder(<<"b", ".", "j", "p", "g">>),
       InFolder(<<"c", ".", "j", "p", "g">>), InFolder(<<"d", ".", "J", "P", "G">>) >>

\* The folder holding 1.jpg .. n.jpg
Sequential(n) ==
    [k \in {InFolder(Str(m) \o DotJpg) : m \in 1..n} |->
        [id |-> CHOOSE m \in 1..n : k = InFolder(Str(m) \o DotJpg), enc |-> "jpeg"]]

RenumberStores ==
    { [k \in {FolderUniverse[m] : m \in S} |-> [id |-> 20 + IndexIn(FolderUniverse, k),
                                                  enc |-> "jpeg"]] :
        S \in SUBSET (1..Len(FolderUniverse)) }
    \cup {Sequential(n) : n \in 0..MaxSeq}

InitRenumber ==
    /\ items = <<>>
    /\ staging = Staging0
    /\ dest \in RenumberStores
    /\ dest0 = dest
    /\ before = dest
    /\ index = Index0
    /\ marker = NoMarker
    /\ markerWrites = 0
    /\ invalidations = 0
    /\ pc = "ren_pick"
    /\ cycles = 1
    /\ firstRun = NoSnapshot
    /\ Locals0

\* rename_images_in_s3_folder(RenumberFolder) is called
CallRenumber ==
    /\ pc = "ren_pick"
    /\ calls < MaxCalls
    /\ calls' = calls + 1
    /\ folder_prefix' = RenumberFolder
    /\ before' = dest
    /\ renamed' = {}
    /\ pc' = "ren_list"
    /\ UNCHANGED <<items, staging, dest, index, marker, markerWrites, invalidations,
                   places, i, success_count, new_path, folders_to_rename, image_files,
                   pos, count, data, entry, response, stages, faults, dest0, counted,
                   copied,
                   indexWrites, attempts, convertedOk, converted, new_key,
                   renCalled, cycles, firstRun>>

NextRenumber ==
    \/ CallRenumber
    \/ RenList(TRUE)
    \/ RenKeep
    \/ RenCopy(TRUE)
    \/ RenDelete(TRUE)
    \/ RenLoopDone

SpecRenumber == InitRenumber /\ [][NextRenumber]_vars

(***************************************************************************)
(* Properties                                                              *)
(***************************************************************************)
LaterStageFaults == {"copy", "convert", "renumber", "invalidate", "reconcile"}

SuccessMarker == [key |-> "ImageProcessor", Result |-> "Success"]

\* C1: when the query succeeded and the only failures are per-key copy or
\* conversion, per-folder renumbering, invalidation or reconciliation
\* failures, the cycle ends with statusCode 200 and the Success marker was
\* stored exactly once.
C1_AbsorbedFailuresEndIn200 ==
    (pc = "done" /\ faults \subseteq LaterStageFaults) =>
        /\ response.statusCode = 200
        /\ markerWrites = 1
        /\ marker = SuccessMarker

\* C1's case: every later stage had a failure and the cycle still ended 200
C1_Witness ==
    /\ pc = "done"
    /\ faults = LaterStageFaults
    /\ response.statusCode = 200
    /\ markerWrites = 1

\* C2: when the query fails the response is 500, no marker is written and
\* nothing else has run: both buckets, the index document and the CDN are
\* as they were, and Discover is the only stage entered.
C2_QueryFailureStopsTheCycle ==
    ("query" \in faults) =>
        /\ pc = "done"
        /\ response.statusCode = 500
        /\ markerWrites = 0
        /\ marker = NoMarker
        /\ dest = dest0
        /\ staging = Staging0
        /\ index = Index0
        /\ invalidations = 0
        /\ renamed = {}
        /\ stages = <<"Discover">>

\* C2's case: the query of a day with registered keys failed
C2_Witness ==
    /\ "query" \in faults
    /\ pc = "done"
    /\ Len(items) = MaxPlaces
    /\ dest # EmptyStore

\* The JPEG objects directly in a folder
JpgIn(store, folder) == {k \in DOMAIN store : dirname(k) = folder /\ IsJpgKey(k)}

Bodies(store) == {store[k] : k \in DOMAIN store}

\* C3: a renumbering without failures leaves the folder with as many JPEG
\* objects as before, the i-th smallest original key's content under
\* basename i with its extension, and no content overwritten or lost.
C3_RenumberKeepsEveryObject ==
    (pc = "ren_pick" /\ calls = 1) =>
        LET F == SortKeys(JpgIn(dest0, RenumberFolder))
        IN  /\ Cardinality(JpgIn(dest, RenumberFolder)) = Len(F)
            /\ \A m \in 1..Len(F) :
                LET t == join(RenumberFolder, Str(m) \o splitext(F[m])[2])
                IN  t \in DOMAIN dest /\ dest[t] = dest0[F[m]]
            /\ Bodies(dest) = Bodies(dest0)

\* The folder's JPEG objects are exactly 1.jpg .. n.jpg
IsSequential(store) ==
    JpgIn(store, RenumberFolder) =
        {InFolder(Str(m) \o DotJpg) : m \in 1..Cardinality(JpgIn(store, RenumberFolder))}

\* C4: renumbering a folder already named 1.jpg .. n.jpg, and renumbering a
\* second time right after a first, copies nothing, deletes nothing and
\* leaves the bucket as it was.
C4_RenumberIsIdempotent ==
    (calls >= 1 /\ (IsSequential(before) \/ calls = 2)) =>
        (renamed = {} /\ dest = before)

Range(seq) == {seq[n] : n \in 1..Len(seq)}

\* The place whose migration the state belongs to: the key being converted,
\* or the key whose conversion has just returned; 0 when there is none
MigratingPlace ==
    IF pc \in {"conv_download", "conv_encode", "conv_upload", "conv_delete"} THEN i
    ELSE IF pc = "migrate" /\ copied > 0 /\ copied = i - 1 THEN copied
    ELSE 0

HoldsPicture(store, k, id) == k \in DOMAIN store /\ store[k].id = id

\* C5: from the copy into the destination until the key's migration is over,
\* whichever later step fails, the destination holds the picture under the
\* original key or under the converted key; before the delete it holds both.
C5_OriginalOrConvertedIsPresent ==
    MigratingPlace > 0 =>
        LET k == places[MigratingPlace]
            t == s3_key_of(k, new_path_of(k))
            id == staging[k].id
        IN  /\ \/ HoldsPicture(dest, k, id)
               \/ new_path_of(k) # <<>> /\ HoldsPicture(dest, t, id)
            /\ pc = "conv_delete" => HoldsPicture(dest, k, id) /\ HoldsPicture(dest, t, id)

\* C5's case: the delete failed after the upload, and both objects are there
C5_Witness ==
    /\ pc = "migrate"
    /\ MigratingPlace > 0
    /\ "convert" \in faults
    /\ places[MigratingPlace] \in DOMAIN dest
    /\ s3_key_of(places[MigratingPlace], new_path_of(places[MigratingPlace]))
           \in DOMAIN dest
    /\ new_path_of(places[MigratingPlace]) # <<>>

\* A key whose extension, lower-cased, is one of the video extensions
HasVideoExtension(k) == Lower(splitext(k)[2]) \in VIDEO_EXTENSIONS

\* C6: a registered key with a video extension that was not in the
\* destination when the cycle started is never in the destination and is
\* never among the keys a recount counts.
C6_VideoKeysStayOut ==
    \A k \in ((DOMAIN dest) \cup counted) \ (DOMAIN dest0) :
        k \in Range(places) => ~ HasVideoExtension(k)

\* C6's case: a cycle with a video key registered migrated a picture,
\* recounted and ended
C6_Witness ==
    /\ pc = "done"
    /\ response.statusCode = 200
    /\ \E n \in 1..Len(places) : HasVideoExtension(places[n])
    /\ response.success >= 1
    /\ counted # {}

StageOrder ==
    <<"Discover", "Migrate", "DeriveFolders", "Renumber", "Invalidate", "Reconcile",
      "MarkComplete">>

StageRank(stage) == IndexIn(StageOrder, stage)

C7_Order ==
    /\ \A a, b \in 1..Len(stages) : a < b => StageRank(stages[a]) < StageRank(stages[b])
    /\ pc \in {"ren_pick", "ren_list", "ren_loop", "ren_delete"} => i > Len(places)
    /\ (pc = "done" /\ response.statusCode = 200) =>
           /\ {"Discover", "DeriveFolders", "Invalidate", "Reconcile", "MarkComplete"}
                  \subseteq Range(stages)
           /\ places # <<>> => "Migrate" \in Range(stages)

\* C7: the stages are entered in the order Discover, Migrate, DeriveFolders,
\* Renumber, Invalidate, Reconcile, MarkComplete and none is entered twice;
\* no folder is renumbered while a key is still to be migrated; and once the
\* marker write has been made, no store, document or CDN call follows.
C7_StagesRunInFixedOrder ==
    /\ []C7_Order
    /\ [][("MarkComplete" \in Range(stages)) =>
              UNCHANGED <<dest, staging, index, marker, markerWrites, invalidations>>]_vars

\* C7's case: a cycle that entered every stage has ended
C7_Witness == pc = "done" /\ stages = StageOrder

Precedes(first, second) ==
    \A a \in 1..Len(stages) :
        stages[a] = second => \E b \in 1..(a - 1) : stages[b] = first

\* C8 as stated: whenever the invalidation has been requested, the index was
\* reconciled before it.
C8_ReconcileBeforeInvalidate == Precedes("Reconcile", "Invalidate")

\* C8, amended: the invalidation is requested before the index is
\* reconciled: after the migration the order is renumbering, invalidation,
\* reconciliation, marker.
C8_InvalidateBeforeReconcile ==
    /\ Precedes("Invalidate", "Reconcile")
    /\ Precedes("Reconcile", "MarkComplete")
    /\ \A a, b \in 1..Len(stages) :
           (stages[a] = "Renumber" /\ stages[b] = "Invalidate") => a < b

\* C8's case: a cycle renumbered, had its invalidation accepted, rewrote the
\* index and ended
C8_Witness ==
    /\ pc = "done"
    /\ "Renumber" \in Range(stages)
    /\ invalidations = 1
    /\ index # Index0
    /\ markerWrites = 1

\* The key lies in a folder whose last path segment is "thumbnail",
\* whatever the case
InThumbnailFolder(k) ==
    LET parts == Split(dirname(k))
    IN  Lower(parts[Len(parts)]) = ThumbnailLower

\* C9: the renumbering never copies an object of a thumbnail folder to a new
\* key (nor, therefore, deletes it).
C9_ThumbnailFoldersAreNotRenumbered ==
    \A r \in renamed : ~ InThumbnailFolder(r[1])

ReconcileSucceeded ==
    /\ pc \in {"mark", "respond", "done"}
    /\ "Reconcile" \in Range(stages)
    /\ "reconcile" \notin faults

\* The key has a directory segment named Thumbnail
HasThumbnailSegment(k) ==
    LET parts == Split(k)
    IN  \E n \in 1..(Len(parts) - 1) : parts[n] = ThumbnailName

ImagesUnder(store, name) ==
    {k \in DOMAIN store :
        StartsWith(k, name \o <<"/">>) /\ IsJpgKey(k) /\ ~ HasThumbnailSegment(k)}

\* C10: after a successful reconcile every index entry of a processed folder
\* has numImages equal to the number of objects under name/ that end in .jpg
\* (whatever the case) and have no Thumbnail/ path segment.
C10_CountsMatchTheJpegObjects ==
    ReconcileSucceeded =>
        \A e \in 1..Len(index) :
            index[e].name \in TopLevelFolders(places) =>
                index[e].numImages = Cardinality(ImagesUnder(dest, index[e].name))


(***************************************************************************)
(* convert_to_jpg_s3 alone: a bucket holding one object, and the function  *)
(* called again and again on the key the bucket holds, no call failing.    *)
(* places keeps the keys the function was called with, in order.           *)
(***************************************************************************)
MaxConversions == 3

ConvertFolders == {<<>>, <<"a">>}

ConvertStems == {<<"x">>, <<"1">>}

ConvertExts ==
    {<<".", "t", "i", "f", "f">>, <<".", "t", "i", "f">>, <<".", "h", "e", "i", "c">>,
     <<".", "j", "p", "g">>, <<".", "J", "P", "G">>, <<".", "j", "p", "e", "g">>,
     <<".", "p", "n", "g">>, <<".", "b", "m", "p">>, <<".", "g", "i", "f">>,
     <<".", "m", "p", "4">>}

ConvertKeys ==
    {join(f, st \o e) : f \in ConvertFolders, st \in ConvertStems, e \in ConvertExts}

ConvertStores == {[k \in {key} |-> [id |-> 30, enc |-> "orig"]] : key \in ConvertKeys}

InitConvert ==
    /\ items = <<>>
    /\ staging = Staging0
    /\ dest \in ConvertStores
    /\ dest0 = dest
    /\ before = dest
    /\ index = Index0
    /\ marker = NoMarker
    /\ markerWrites = 0
    /\ invalidations = 0
    /\ pc = "migrate"
    /\ cycles = 1
    /\ firstRun = NoSnapshot
    /\ Locals0

CallConvert ==
    /\ pc = "migrate"
    /\ i = Len(places) + 1
    /\ Len(places) < MaxConversions
    /\ \E key \in DOMAIN dest : places' = Append(places, key)
    /\ pc' = "conv_download"
    /\ UNCHANGED <<items, staging, dest, index, marker, markerWrites, invalidations,
                   i, success_count, new_path, folders_to_rename, folder_prefix,
                   image_files, pos, count, data, entry, response, stages, faults,
                   dest0, before, renamed, counted, calls, copied, indexWrites,
                   attempts, convertedOk, converted, new_key, renCalled, cycles,
                   firstRun>>

NextConvert ==
    \/ CallConvert
    \/ ConvDownload(TRUE)
    \/ ConvEncode(TRUE)
    \/ ConvUpload(TRUE)
    \/ ConvDelete(TRUE)

SpecConvert == InitConvert /\ [][NextConvert]_vars

\* C11: once a key ends in _lower_case.jpg, converting it again gives the
\* same key back: x.tiff becomes x.jpg, x.jpg becomes x_lower_case.jpg, and
\* every later conversion returns x_lower_case.jpg, so the key never carries
\* more than one _lower_case suffix.
C11_ConversionReachesAFixedPoint ==
    (pc = "migrate" /\ places # <<>> /\ i = Len(places) + 1 /\ converted)
        => LET key == places[Len(places)]
           IN  EndsWith(key, LowerCaseSuffix \o DotJpg) => new_key = key

\* C12: the stored document differs from the one before the reconcile in
\* nothing but the numImages of entries whose name is in the processed set:
\* the entries are as many, in the same order, with the same fields, and
\* every other field and every other entry has its old value.
C12_State ==
    \/ index = Index0
    \/ /\ Len(index) = Len(Index0)
       /\ \A e \in 1..Len(Index0) :
            /\ DOMAIN index[e] = DOMAIN Index0[e]
            /\ \A field \in DOMAIN Index0[e] :
                 index[e][field] # Index0[e][field]
                     => /\ field = "numImages"
                        /\ index[e].name \in TopLevelFolders(places)

\* The same from one step to the next: a step that changes the stored
\* document changes nothing but such numImages
C12_ReconcileChangesOnlyNumImages ==
    /\ []C12_State
    /\ [][index' # index
             => /\ Len(index') = Len(index)
                /\ \A e \in 1..Len(index) :
                     /\ DOMAIN index'[e] = DOMAIN index[e]
                     /\ \A field \in DOMAIN index[e] :
                          index'[e][field] # index[e][field]
                              => /\ field = "numImages"
                                 /\ index[e].name \in TopLevelFolders(places)]_vars

C12_Witness ==
    /\ pc = "done"
    /\ index # Index0
    /\ \E e \in 1..Len(Index0) : Index0[e].name \notin TopLevelFolders(places)

ReconcilePcs == {"rec_download", "rec_loop"}

\* C13: a reconcile stores the document at most once, as one overwrite with
\* the whole recounted document when the loop over the entries has ended;
\* when the download, a listing or the upload fails the stored document is
\* the one from before the reconcile, and the cycle goes on to the Success
\* marker and the 200 response.
C13_State ==
    /\ indexWrites <= 1
    /\ pc \in ReconcilePcs => index = Index0 /\ indexWrites = 0
    /\ "reconcile" \in faults => index = Index0 /\ indexWrites = 0
    /\ (pc = "done" /\ "reconcile" \in faults)
           => /\ response.statusCode = 200
              /\ \E n \in 1..Len(stages) : stages[n] = "MarkComplete"
              /\ "mark" \notin faults => marker = SuccessMarker /\ markerWrites = 1

C13_DocumentIsWrittenOnceOrNotAtAll ==
    /\ []C13_State
    /\ [][(index' # index \/ indexWrites' # indexWrites)
             => /\ pc = "rec_loop"
                /\ entry > Len(data)
                /\ index' = data
                /\ indexWrites' = indexWrites + 1
                /\ pc' = "mark"]_vars

C13_Witness ==
    /\ pc = "done"
    /\ "reconcile" \in faults
    /\ counted # {}
    /\ response.statusCode = 200
    /\ marker = SuccessMarker

ConvertPcs == {"conv_download", "conv_encode", "conv_upload", "conv_delete"}

\* The loop over places: in the loop, in a conversion, or just left
MigratePcs == ConvertPcs \cup {"migrate", "derive"}

\* The number of discovered keys the loop over places has reached
Reached ==
    IF pc = "query" THEN 0
    ELSE IF pc = "migrate" THEN i - 1
    ELSE IF pc \in ConvertPcs THEN i
    ELSE Len(places)

\* C14: whatever copies and conversions fail, the copies attempted so far
\* are those of the non-video keys the loop has reached, one attempt each
\* and in discovery order; a key whose own copy and conversion succeed ends
\* as its converted object, whatever happened to the keys before it; an
\* attempt, failed or not, moves the loop to the conversion of that key or to
\* the next key; and no step after the loop adds an attempt or changes the
\* list of keys.
C14_State ==
    /\ \A a \in 1..Len(attempts) : a > 1 => attempts[a - 1] < attempts[a]
    /\ pc \in MigratePcs
           => Range(attempts) = {p \in 1..Reached : ~ HasVideoExtension(places[p])}
    /\ (pc = "migrate" /\ copied > 0 /\ copied = i - 1 /\ converted)
           => /\ copied \in convertedOk
              /\ HoldsPicture(dest, new_key, staging[places[copied]].id)

C14_EveryKeyGetsItsOwnAttempt ==
    /\ []C14_State
    /\ [][attempts' # attempts
             => /\ pc = "migrate"
                /\ attempts' = Append(attempts, i)
                /\ i' = i + 1 \/ (i' = i /\ pc' = "conv_download")]_vars
    /\ [][places' # places => pc = "query"]_vars

\* C14's case: the first key failed and the second was converted
C14_Witness ==
    /\ pc = "migrate"
    /\ faults \cap {"copy", "convert"} # {}
    /\ attempts = <<1, 2>>
    /\ convertedOk = {2}
    /\ copied = 2
    /\ converted
    /\ new_key \in DOMAIN dest

RenumberPcs == {"ren_list", "ren_loop", "ren_delete"}

\* C15: whatever fails while folders are renumbered, every derived parent
\* folder that is not a thumbnail folder has had its renumbering called when
\* the stage is over (pc = "invalidate"; no later step calls one); while one folder is renumbered every object whose key
\* is outside that folder stays as it was when the call began; and the step
\* that ends a call, failing or not, changes no object.
C15_State ==
    /\ pc = "invalidate"
           => renCalled = {f \in ParentFolders(places) : ~ IsThumbnailFolder(f)}
    /\ (pc \in RenumberPcs /\ dest # before)
           => \A k \in (DOMAIN dest) \cup (DOMAIN before) :
                 ~ StartsWith(k, folder_prefix)
                     => k \in DOMAIN dest /\ k \in DOMAIN before /\ dest[k] = before[k]

EndToEndDay == <<TableValue(K_a_1_heic), TableValue(K_a_2_png), TableValue(K_b_clip_mp4)>>

\* C16: the discovered keys a/1.heic, a/2.png, b/clip.mp4 on an empty
\* destination, no call failing: when the cycle has returned the destination
\* holds a/1.jpg and a/2.jpg, holds none of a/1.heic, a/2.png, b/clip.mp4,
\* the entry for a has numImages 2 and the response reports 2 of 3.
C16_EndToEnd ==
    (pc = "done" /\ faults = {} /\ dest0 = EmptyStore /\ items = EndToEndDay)
        => /\ K_a_1_jpg \in DOMAIN dest
           /\ K_a_2_jpg \in DOMAIN dest
           /\ (DOMAIN dest) \cap {K_a_1_heic, K_a_2_png, K_b_clip_mp4} = {}
           /\ \A e \in 1..Len(index) : index[e].name = <<"a">> => index[e].numImages = 2
           /\ \E e \in 1..Len(index) : index[e].name = <<"a">>
           /\ response = [statusCode |-> 200, success |-> 2, total |-> 3]

C16_Witness ==
    /\ pc = "done"
    /\ faults = {}
    /\ dest0 = EmptyStore
    /\ items = EndToEndDay
    /\ marker = SuccessMarker

\* The extensions convert_to_jpg_s3 has a conversion for
SupportedExtensions ==
    {<<".", "t", "i", "f", "f">>, <<".", "t", "i", "f">>, <<".", "h", "e", "i", "c">>,
     <<".", "j", "p", "g">>, <<".", "j", "p", "e", "g">>, <<".", "p", "n", "g">>,
     <<".", "b", "m", "p">>}

Unsupported(k) == Lower(splitext(k)[2]) \notin SupportedExtensions

JustReturned == pc = "migrate" /\ copied > 0 /\ copied = i - 1

\* C17: when the conversion of a copied key k has returned True with key k2,
\* k2 is in the folder of k, its basename ends in .jpg, k2 is not k, and the
\* destination holds k2 and does not hold k; when the extension of k is not
\* a supported one the conversion changes nothing in the destination and
\* returns False.
C17_State ==
    JustReturned
        => LET k == places[copied]
           IN  /\ Unsupported(k) => ~ converted
               /\ converted
                     => /\ dirname(new_key) = dirname(k)
                        /\ EndsWith(basename(new_key), DotJpg)
                        /\ new_key # k
                        /\ new_key \in DOMAIN dest
                        /\ k \notin DOMAIN dest

C17_ConversionResult ==
    /\ []C17_State
    /\ [][(pc \in ConvertPcs /\ Unsupported(places[i])) => dest' = dest]_vars

\* C17's case: a .jpg original was converted and is gone
C17_Witness ==
    /\ JustReturned
    /\ converted
    /\ places[copied] = K_a_2_jpg
    /\ new_key \in DOMAIN dest
    /\ K_a_2_jpg \notin DOMAIN dest

VideoPositions == {p \in 1..Len(places) : HasVideoExtension(places[p])}

\* C18: the 200 response reports as successes the discovered keys whose copy
\* and whose conversion both succeeded, and as total all discovered keys,
\* videos included; so the successes are at most the non-video keys, and a
\* key that was copied but not converted is not among them.
C18_State ==
    (pc = "done" /\ response.statusCode = 200)
        => /\ response.total = Len(items)
           /\ response.success = Cardinality(convertedOk)
           /\ convertedOk \subseteq Range(attempts)
           /\ 0 <= response.success
           /\ response.success <= response.total - Cardinality(VideoPositions)

\* The count grows by one, and only in the step in which a conversion
\* returns True
C18_ResponseCounts ==
    /\ []C18_State
    /\ [][success_count' # success_count
             => /\ pc \in ConvertPcs
                /\ pc' = "migrate"
                /\ converted'
                /\ success_count' = success_count + 1]_vars

\* C18's case: one key converted, one key copied but not converted
C18_Witness ==
    /\ pc = "done"
    /\ response = [statusCode |-> 200, success |-> 1, total |-> 2]
    /\ faults = {"convert"}
    /\ attempts = <<1, 2>>

(***************************************************************************)
(* lambda_handler invoked again when it has returned, on the same table    *)
(* rows and the same SOURCE_BUCKET, no call failing in either invocation.  *)
(***************************************************************************)
MaxCycles == 2

Rerun ==
    /\ pc = "done"
    /\ cycles < MaxCycles
    /\ cycles' = cycles + 1
    /\ firstRun' = IF cycles = 1 THEN [dest |-> dest, index |-> index] ELSE firstRun
    /\ dest0' = dest
    /\ before' = dest
    /\ pc' = "query"
    /\ places' = <<>>
    /\ i' = 1
    /\ success_count' = 0
    /\ new_path' = <<>>
    /\ folders_to_rename' = {}
    /\ folder_prefix' = <<>>
    /\ image_files' = <<>>
    /\ pos' = 1
    /\ count' = 1
    /\ data' = <<>>
    /\ entry' = 1
    /\ response' = NoResponse
    /\ stages' = <<>>
    /\ renamed' = {}
    /\ counted' = {}
    /\ copied' = 0
    /\ indexWrites' = 0
    /\ attempts' = <<>>
    /\ convertedOk' = {}
    /\ converted' = FALSE
    /\ new_key' = <<>>
    /\ renCalled' = {}
    /\ UNCHANGED <<items, staging, dest, index, marker, markerWrites, invalidations,
                   faults, calls>>

NextRerun ==
    \/ Query(TRUE)
    \/ MigrateSkipVideo
    \/ MigrateCopy(TRUE)
    \/ ConvDownload(TRUE)
    \/ ConvEncode(TRUE)
    \/ ConvUpload(TRUE)
    \/ ConvDelete(TRUE)
    \/ MigrateDone
    \/ DeriveFolders
    \/ RenumberSkipThumbnail
    \/ RenumberCall
    \/ RenumberDone
    \/ RenList(TRUE)
    \/ RenKeep
    \/ RenCopy(TRUE)
    \/ RenDelete(TRUE)
    \/ RenLoopDone
    \/ Invalidate(TRUE)
    \/ RecDownload(TRUE)
    \/ RecSkipEntry
    \/ RecCountEntry(TRUE)
    \/ RecUpload(TRUE)
    \/ MarkComplete(TRUE)
    \/ Respond
    \/ Rerun

SpecRerun == Init /\ [][NextRerun]_vars

\* C19: when a cycle with no failing call is run a second time on the same
\* discovered keys and the same staging store, the destination (its keys and
\* their contents) and the numImages of every index entry are after the
\* second cycle what they were after the first.
C19_RerunChangesNothing ==
    (pc = "done" /\ cycles = 2)
        => /\ dest = firstRun.dest
           /\ Len(index) = Len(firstRun.index)
           /\ \A e \in 1..Len(index) : index[e].numImages = firstRun.index[e].numImages

\* C20: no step of a cycle changes the staging store: it holds the same
\* objects with the same contents in every state of the cycle, whatever was
\* discovered and whatever failed.
C20_StagingIsNeverModified ==
    /\ [](staging = Staging0)
    /\ [][staging' = staging]_vars

\* C20's case: a cycle with copies, conversions, renames and failures is over
C20_Witness ==
    /\ pc = "done"
    /\ convertedOk # {}
    /\ renamed # {}
    /\ faults \cap {"copy", "convert", "renumber"} # {}
    /\ staging = Staging0

=============================================================================
